---- MODULE Spec2Model ----
(***************************************************************************)
(* Model of the knowledge-pipeline file ledger: frontmatter read/write,    *)
(* eligibility checks, discovery, the analysis batch, the upload batch     *)
(* and the state transitions of StateManager, with process crashes.        *)
(***************************************************************************)
EXTENDS Integers, FiniteSets, Sequences, TLC

\* ------------------------------------------------------------------------
\* Bounds of the model
\* ------------------------------------------------------------------------
\* number of successful create-source calls recorded per transcript
MaxCreated == 2

\* number of process crashes explored in one behaviour
MaxCrashes == 1

\* ------------------------------------------------------------------------
\* Values
\* ------------------------------------------------------------------------
Transcripts == {"t1", "t2"}

\* a key that is not in the YAML mapping / a key whose value is YAML null
ABSENT == "<absent>"
NULL == "<null>"

\* PipelineStatus enum values
PipelineStatus == {"pending", "approved", "uploaded", "failed"}

\* the frontmatter keys the core reads or writes, plus the domain keys that
\* load_analyzed_transcript needs
Keys == {"channel", "video_id", "title", "published_at", "word_count",
         "semantic_summary", "source_path", "status", "source_id",
         "error", "error_code", "failed_at"}

\* the empty mapping {}
EmptyHdr == [k \in Keys |-> ABSENT]

\* body text: the text and whether it still carries a trailing newline
Body(text, nl) == [text |-> text, nl |-> nl]
EmptyBody == Body("", FALSE)
CutBody == Body("cut", FALSE)

\* str.strip() on a body
Strip(b) == [b EXCEPT !.nl = FALSE]

\* file contents: a complete file, no file, an empty file, a file cut inside
\* the header block, a file cut inside the body
File(h, b) == [kind |-> "full", hdr |-> h, body |-> b]
NoFile == [kind |-> "nofile", hdr |-> EmptyHdr, body |-> EmptyBody]
EmptyFile == [kind |-> "empty", hdr |-> EmptyHdr, body |-> EmptyBody]
HdrCutFile == [kind |-> "hdrcut", hdr |-> EmptyHdr, body |-> CutBody]
BodyCutFile(h) == [kind |-> "bodycut", hdr |-> h, body |-> CutBody]

\* a file read_text cannot read (no permission, not UTF-8)
UnreadableFile == [kind |-> "unreadable", hdr |-> EmptyHdr, body |-> EmptyBody]

\* a file whose header block is closed but is not valid YAML
BadYamlFile == [kind |-> "badyaml", hdr |-> EmptyHdr, body |-> EmptyBody]

\* FrontmatterParser.parse raises FrontmatterParseError: yaml.safe_load
\* fails on the text between the two '---' lines
ParseRaises(c) == c.kind = "badyaml"

\* filepath.read_text raises (OSError, UnicodeDecodeError)
ReadRaises(c) == c.kind = "unreadable"

\* what a killed write_text(new) can leave on disk before it completes
PartialWrites(new) == {EmptyFile, HdrCutFile, BodyCutFile(new.hdr)}

\* dict.get(key): None for a missing key and for a null value
Get(h, k) == IF h[k] = ABSENT THEN NULL ELSE h[k]

\* a merge in which an update value of null removes the key
MergeNullDeletes(h, u) ==
  [k \in Keys |-> IF k \in DOMAIN u
                  THEN (IF u[k] = NULL THEN ABSENT ELSE u[k])
                  ELSE h[k]]

\* {**frontmatter, **updates}; updates is a function on a subset of Keys
Merge(h, u) == [k \in Keys |-> IF k \in DOMAIN u THEN u[k] ELSE h[k]]

\* FrontmatterParser.parse applied to the text of a file, when it returns: a
\* file that does not start with '---' and a file whose '---' is never closed
\* both give the empty mapping and the whole text as body
Parse(c) ==
  CASE c.kind = "full" -> [hdr |-> c.hdr, body |-> Strip(c.body)]
    [] c.kind = "bodycut" -> [hdr |-> c.hdr, body |-> Strip(c.body)]
    [] c.kind = "hdrcut" -> [hdr |-> EmptyHdr, body |-> Strip(c.body)]
    [] OTHER -> [hdr |-> EmptyHdr, body |-> EmptyBody]

\* write that keeps only the updated keys of the header
WriterOutputOverwrite(c, u) == File(Merge(EmptyHdr, u), Parse(c).body)

\* the text FrontmatterWriter.write puts in place of content c
WriterOutput(c, u) == File(Merge(Parse(c).hdr, u), Parse(c).body)

\* ------------------------------------------------------------------------
\* Eligibility (discovery.StatusChecker, state.FrontmatterReader,
\* state.IdempotencyChecker)
\* ------------------------------------------------------------------------
\* StatusChecker.get_status: None (NULL here) for a missing, null, empty or
\* unknown status
get_status(h) ==
  LET status_str == Get(h, "status")
  IN IF status_str = NULL \/ status_str = "" THEN NULL
     ELSE IF status_str \in PipelineStatus THEN status_str ELSE NULL

\* is_processed without the pending case
IsProcessedStatusesNoPending == {"uploaded", "approved"}

IsProcessedStatuses == {"uploaded", "approved", "pending"}

\* StatusChecker.is_processed
is_processed(h) ==
  LET status == get_status(h)
  IN IF status = NULL THEN FALSE ELSE status \in IsProcessedStatuses

\* should_retry that ignores force for a failed file
should_retry_no_force(h, force) ==
  get_status(h) = NULL

\* StatusChecker.should_retry
should_retry(h, force) ==
  LET status == get_status(h)
  IN IF status = NULL THEN TRUE
     ELSE IF status = "failed" THEN force
     ELSE FALSE

\* FrontmatterReader.read_status on the content at a path: a missing file
\* and a read error give None
read_status(c) ==
  IF c.kind = "nofile" \/ ReadRaises(c) \/ ParseRaises(c) THEN NULL
  ELSE get_status(Parse(c).hdr)

\* IdempotencyChecker.should_retry
checker_should_retry(c, force) ==
  LET status == read_status(c)
  IN IF status = NULL THEN TRUE
     ELSE IF status = "failed" THEN force
     ELSE FALSE

\* ------------------------------------------------------------------------
\* Discovery (discovery.TranscriptMetadataExtractor, FileFilter,
\* DiscoveryService)
\* ------------------------------------------------------------------------
REQUIRED_FIELDS == {"channel", "video_id", "title", "published_at"}

\* default of the min_word_count parameter
MinWordCount == 100

\* the integer a word_count scalar stands for; a missing or null one is 0
WordCount(h) ==
  CASE h["word_count"] = "150" -> 150
    [] h["word_count"] = "50" -> 50
    [] OTHER -> 0

\* TranscriptMetadataExtractor.extract succeeds: every required field is
\* present and not null (video_id can also come from the file name, which
\* here always carries it)
ExtractOk(h) ==
  \A f \in REQUIRED_FIELDS \ {"video_id"} : Get(h, f) # NULL

\* should_process that gates on should_retry without force
should_process_gated(h) ==
  IF ~should_retry(h, FALSE) THEN FALSE
  ELSE IF WordCount(h) < MinWordCount THEN FALSE
  ELSE TRUE

\* FileFilter.should_process
should_process(h) ==
  IF is_processed(h) THEN FALSE
  ELSE IF WordCount(h) < MinWordCount THEN FALSE
  ELSE TRUE

\* discover that stops at the first file it cannot read or parse
DiscoverAbortsOnError(tree) ==
  IF \E t \in Transcripts : ReadRaises(tree[t]) \/ ParseRaises(tree[t])
  THEN {}
  ELSE {t \in Transcripts :
          /\ tree[t].kind # "nofile"
          /\ ExtractOk(Parse(tree[t]).hdr)
          /\ should_process(Parse(tree[t]).hdr)}

\* DiscoveryService.discover over the source tree: the transcripts admitted
Discover(tree) ==
  {t \in Transcripts :
     /\ tree[t].kind # "nofile"
     /\ ~ReadRaises(tree[t])
     /\ ~ParseRaises(tree[t])
     /\ ExtractOk(Parse(tree[t]).hdr)
     /\ should_process(Parse(tree[t]).hdr)}

\* ------------------------------------------------------------------------
\* Headers the pipeline builds
\* ------------------------------------------------------------------------
\* a transcript as the transcriber leaves it in the source tree
SourceHdr(t, status, sid, wc) ==
  Merge(EmptyHdr, [k \in {"channel", "video_id", "title", "published_at",
                          "word_count", "status", "source_id"} |->
     CASE k = "channel" -> "chan"
       [] k = "video_id" -> t
       [] k = "title" -> t
       [] k = "published_at" -> "2026-01-05"
       [] k = "word_count" -> wc
       [] k = "status" -> status
       [] OTHER -> sid])

SourceBody(t) == Body(t, FALSE)

\* AnalyzerService._build_analyzed_markdown: status pending, source_id null,
\* body followed by a newline
AnalyzedFile(t, src) ==
  File(Merge(EmptyHdr, [k \in {"channel", "video_id", "title", "published_at",
                          "word_count", "semantic_summary", "source_path",
                          "status", "source_id"} |->
     CASE k = "status" -> "pending"
       [] k = "source_id" -> NULL
       [] k = "semantic_summary" -> "summary"
       [] k = "source_path" -> t
       [] OTHER -> Parse(src).hdr[k]]),
       Body(Parse(src).body.text, TRUE))

\* StatePersistence.save_analyzed_transcript for an AnalyzedTranscript with
\* no source_id and no error: source_id is left out, the body is the parsed
\* body of the file at source_path
SavedFile(t, src) ==
  File(Merge(EmptyHdr, [k \in {"channel", "video_id", "title", "published_at",
                          "word_count", "semantic_summary", "source_path",
                          "status"} |->
     CASE k = "status" -> "pending"
       [] k = "semantic_summary" -> "summary"
       [] k = "source_path" -> t
       [] OTHER -> SourceHdr(t, ABSENT, ABSENT, "150")[k]]),
       IF src.kind = "nofile" THEN EmptyBody ELSE Parse(src).body)

\* StatePersistence.load_analyzed_transcript succeeds: the keys it indexes
\* are present and the status is a PipelineStatus value (a missing status
\* defaults to pending); an "error" key makes it build an ErrorInfo
LoadStatus(h) == IF h["status"] = ABSENT THEN "pending" ELSE h["status"]

\* models.ErrorInfo is a dataclass with the fields error, error_code,
\* failed_at; constructing it with other keyword names raises TypeError
ErrorInfoFields == {"error", "error_code", "failed_at"}
ErrorInfoAccepts(kwargs) == kwargs = ErrorInfoFields

\* the keyword names state.py passes to ErrorInfo
StateErrorInfoKwargs == {"message", "code", "timestamp"}

LoadOk(c) ==
  LET h == Parse(c).hdr
  IN /\ c.kind # "nofile"
     /\ ~ParseRaises(c)
     /\ \A k \in {"channel", "video_id", "title", "published_at",
                  "semantic_summary"} : h[k] # ABSENT
     /\ h["published_at"] # NULL
     /\ LoadStatus(h) \in PipelineStatus
     /\ (h["error"] # ABSENT => ErrorInfoAccepts(StateErrorInfoKwargs))

\* ------------------------------------------------------------------------
\* State
\* ------------------------------------------------------------------------
\* the three places a transcript's file can be: the transcriber's output
\* tree, intermediate/pending/{channel}/{YYYY-MM}/ and
\* intermediate/approved/{channel}/{YYYY-MM}/
Locs == {"src", "pending", "approved"}

\* op names the call the write belongs to (the position it completes at)
NoWrite == [op |-> "", loc |-> "", t |-> "", old |-> NoFile, new |-> NoFile]

VARIABLES
  disk,          \* disk[loc][t]: content of the file of transcript t at loc
  pc,            \* position of the single process
  dry,           \* dry_run flag of the running run_upload
  todo,          \* items of the running batch not yet taken
  cur,           \* item being processed, "" when none
  loaded,        \* status of the AnalyzedTranscript loaded for cur, NULL when none
  sid,           \* source id returned by create_source for cur
  apiCalls,      \* external API calls made for cur in this run
  wr,            \* the write_text in progress (truncated, not yet complete)
  admitted,      \* result of the last discover()
  prevAdmitted,  \* result of the discover() before it
  discovers,     \* number of discover() calls made, capped at MaxDiscovers
  ret,           \* result of the last eligibility query
  call,          \* the last call of the state API made on its own, NoCall when none
  dres,          \* outcome and DiscoveryStatistics of the last discover()
  req,           \* the _make_request call under way or ended
  llm,           \* the _call_gemini_with_streaming call under way or ended
  batch,         \* the batch loop under way or ended
  created,       \* history: successful create-source calls per transcript
  upFailed,      \* history: transcripts whose upload attempt ended in a failure
  analysed,      \* history: transcripts whose analysed file was written completely
  aborted,       \* history: the write a crash interrupted, NoWrite when none
  crashes        \* history: number of crashes so far

vars == <<disk, pc, dry, todo, cur, loaded, sid, apiCalls, wr, admitted,
          prevAdmitted, discovers, ret, call, dres, req, llm, batch,
          created,
          upFailed, analysed, aborted, crashes>>

NoRet == [t |-> "", force |-> FALSE, sc |-> FALSE, ic |-> FALSE]

\* a tree with no file in it
EmptyDisk == [loc \in Locs |-> [t \in Transcripts |-> NoFile]]

\* op is the method called on the file of t at loc, to the target directory
\* of a move, arg the status or id argument, raised the exception the call
\* ended with ("" when it returned), before the tree when it was called,
\* can the can_process it returned
NoCall == [op |-> "", loc |-> "", t |-> "", to |-> "", arg |-> "",
           raised |-> "", before |-> EmptyDisk, can |-> FALSE]

\* DiscoveryStatistics() as discover() resets it, with the root it was
\* given ("" before any call) and the exception it ended with
NoDres == [root |-> "", raised |-> "", total_scanned |-> 0,
           parsed_success |-> 0, parsed_failed |-> 0,
           filtered_by_status |-> 0, filtered_by_word_count |-> 0,
           filtered_by_channel |-> 0, ready_to_process |-> 0]

\* status_code = None of an APIError, retry_after = None of an
\* LLMRateLimitError
NoneCode == 0
NoneDelay == 0 - 1

\* no _make_request call; embed is how trigger_embedding, when it is the
\* caller, ended after the call
NoReq == [max_attempts |-> 0, endpoint |-> "", attempt |-> 0, outs |-> <<>>,
          slept |-> <<>>, result |-> "", status_code |-> NoneCode,
          embed |-> ""]

\* no _call_gemini_with_streaming call
NoLlm == [max_retries |-> 0, initial_retry_delay |-> 0, attempt |-> 0,
          outs |-> <<>>, slept |-> <<>>, result |-> "", output |-> 0,
          retry_after |-> NoneDelay]

\* exit = None: main has not returned
NoExit == 0 - 1

\* no batch loop: loop is the function that runs it, total the number of
\* items, i the number of items attempted, outs the outcome of each of them,
\* events what the loop did in order (the outcomes, and "sleep" for a
\* time.sleep), result how the loop ended, exit the value main returns
NoBatch == [loop |-> "", total |-> 0, i |-> 0, outs |-> <<>>,
            events |-> <<>>, result |-> "", exit |-> NoExit]

\* disk with the file of t at loc replaced by c
Put(d, loc, t, c) == [d EXCEPT ![loc][t] = c]

\* the fresh source tree: transcripts with no pipeline status, long enough
FreshSource(t) == File(SourceHdr(t, ABSENT, ABSENT, "150"), SourceBody(t))

\* the transcripts in the source tree when the pipeline starts
InitTree == {"t1"}

Init ==
  /\ disk = [loc \in Locs |-> [t \in Transcripts |->
               IF loc = "src" /\ t \in InitTree THEN FreshSource(t) ELSE NoFile]]
  /\ pc = "idle"
  /\ dry = FALSE
  /\ todo = {}
  /\ cur = ""
  /\ loaded = NULL
  /\ sid = NULL
  /\ apiCalls = 0
  /\ wr = NoWrite
  /\ admitted = {}
  /\ prevAdmitted = {}
  /\ discovers = 0
  /\ ret = NoRet
  /\ call = NoCall
  /\ dres = NoDres
  /\ req = NoReq
  /\ llm = NoLlm
  /\ batch = NoBatch
  /\ created = [t \in Transcripts |-> 0]
  /\ upFailed = {}
  /\ analysed = {}
  /\ aborted = NoWrite
  /\ crashes = 0

\* variables no pipeline step changes
HistSame == UNCHANGED <<created, upFailed, analysed, aborted, crashes>>
QuerySame == UNCHANGED <<admitted, prevAdmitted, discovers, ret, call, dres,
                        req, llm,
                 batch>>

\* ------------------------------------------------------------------------
\* KnowledgePipeline.run_upload
\* ------------------------------------------------------------------------
\* pending_dir.rglob("*_analyzed.md")
PendingFiles(d) == {t \in Transcripts : d["pending"][t].kind # "nofile"}

\* run_upload up to the start of its loop; healthy is the result of
\* health_check, d the dry_run argument
StartUpload(d, healthy) ==
  /\ pc = "idle"
  /\ IF (~d /\ ~healthy) \/ PendingFiles(disk) = {}
     THEN /\ pc' = "idle"
          /\ todo' = {}
          /\ dry' = FALSE
     ELSE /\ pc' = "up_next"
          /\ todo' = PendingFiles(disk)
          /\ dry' = d
  /\ aborted' = NoWrite
  /\ UNCHANGED <<disk, cur, loaded, sid, apiCalls, wr, created, upFailed,
                 analysed, crashes>>
  /\ QuerySame

\* one iteration of the loop up to the upload call: load_analyzed_transcript,
\* then the dry-run shortcut
UploadTake(t) ==
  /\ pc = "up_next"
  /\ t \in todo
  /\ todo' = todo \ {t}
  /\ apiCalls' = 0
  /\ sid' = NULL
  /\ IF ~LoadOk(disk["pending"][t])
     THEN /\ pc' = "up_fail"
          /\ cur' = t
          /\ loaded' = NULL
     ELSE IF dry
     THEN /\ pc' = "up_next"
          /\ cur' = ""
          /\ loaded' = NULL
     ELSE /\ pc' = "up_ensure"
          /\ cur' = t
          /\ loaded' = LoadStatus(Parse(disk["pending"][t]).hdr)
  /\ UNCHANGED <<disk, dry, wr>>
  /\ HistSame
  /\ QuerySame

\* the loop is over
UploadDone ==
  /\ pc = "up_next"
  /\ todo = {}
  /\ pc' = "idle"
  /\ dry' = FALSE
  /\ UNCHANGED <<disk, todo, cur, loaded, sid, apiCalls, wr>>
  /\ HistSame
  /\ QuerySame

\* a step of UploaderService.upload that calls the API and goes to pc ok on
\* success, to the failure handler on an APIError
ApiStep(from, ok, to) ==
  /\ pc = from
  /\ apiCalls' = apiCalls + 1
  /\ pc' = IF ok THEN to ELSE "up_fail"
  /\ UNCHANGED <<disk, dry, todo, cur, loaded, wr>>
  /\ QuerySame

\* ensure_notebook_exists: an APIError is caught inside, it never fails
EnsureNotebook ==
  /\ ApiStep("up_ensure", TRUE, "up_create")
  /\ UNCHANGED sid
  /\ HistSame

\* the ids create_response.id can carry: the server's id, or "" when the
\* response has no "id" (result.get("id", ""))
SourceIds == {"source:1", ""}

\* create_source
CreateSource(ok, id) ==
  /\ ApiStep("up_create", ok, "up_topics")
  /\ ok => created[cur] < MaxCreated
  /\ created' = IF ok THEN [created EXCEPT ![cur] = @ + 1] ELSE created
  /\ sid' = IF ok THEN id ELSE sid
  /\ UNCHANGED <<upFailed, analysed, aborted, crashes>>

\* update_source_topics
UpdateTopics(ok) ==
  /\ ApiStep("up_topics", ok, "up_link")
  /\ UNCHANGED sid
  /\ HistSame

\* link_source_to_notebook
LinkNotebook(ok) ==
  /\ ApiStep("up_link", ok, "up_embed")
  /\ UNCHANGED sid
  /\ HistSame

\* trigger_embedding
TriggerEmbedding(ok) ==
  /\ ApiStep("up_embed", ok, "up_insights")
  /\ UNCHANGED sid
  /\ HistSame

\* _trigger_insights_async: every error is swallowed
TriggerInsights ==
  /\ ApiStep("up_insights", TRUE, "mu_w1")
  /\ UNCHANGED sid
  /\ HistSame

\* ------------------------------------------------------------------------
\* FrontmatterWriter.write and Path.write_text
\* ------------------------------------------------------------------------
\* write_text opens the file for writing, which truncates it, and the new
\* text reaches the file afterwards: between the two the file holds a
\* prefix of the new text
WriteBegin(from, loc, t, new, to) ==
  /\ pc = from
  /\ \E p \in PartialWrites(new) : disk' = Put(disk, loc, t, p)
  /\ wr' = [op |-> to, loc |-> loc, t |-> t, old |-> disk[loc][t], new |-> new]
  /\ pc' = to

WriteEnd(from, to) ==
  /\ pc = from
  /\ disk' = Put(disk, wr.loc, wr.t, wr.new)
  /\ wr' = NoWrite
  /\ pc' = to

\* the updates of write_status and write_source_id
StatusUpdate(status) == [k \in {"status"} |-> status]

\* write_source_id that writes null instead of the id
SourceIdUpdateDropped(id) == [k \in {"source_id"} |-> NULL]

SourceIdUpdate(id) == [k \in {"source_id"} |-> id]

\* ------------------------------------------------------------------------
\* StateManager.mark_as_uploaded, called by run_upload on the pending path
\* ------------------------------------------------------------------------
\* self.writer.write_status(filepath, PipelineStatus.UPLOADED)
MarkUploadedStatusBegin ==
  /\ WriteBegin("mu_w1", "pending", cur,
                WriterOutput(disk["pending"][cur], StatusUpdate("uploaded")),
                "mu_w1f")
  /\ UNCHANGED <<dry, todo, cur, loaded, sid, apiCalls>>
  /\ HistSame
  /\ QuerySame

MarkUploadedStatusEnd ==
  /\ WriteEnd("mu_w1f", "mu_w2")
  /\ UNCHANGED <<dry, todo, cur, loaded, sid, apiCalls>>
  /\ HistSame
  /\ QuerySame

\* self.writer.write_source_id(filepath, source_id)
MarkUploadedSourceIdBegin ==
  /\ WriteBegin("mu_w2", "pending", cur,
                WriterOutput(disk["pending"][cur], SourceIdUpdate(sid)),
                "mu_w2f")
  /\ UNCHANGED <<dry, todo, cur, loaded, sid, apiCalls>>
  /\ HistSame
  /\ QuerySame

MarkUploadedSourceIdEnd ==
  /\ WriteEnd("mu_w2f", "mu_move")
  /\ UNCHANGED <<dry, todo, cur, loaded, sid, apiCalls>>
  /\ HistSame
  /\ QuerySame

\* FileMover._move_file from pending/ to approved/: an existing target is
\* unlinked first, then the file is renamed; ok = FALSE is an OSError,
\* raised as FileMoveError
Renamed(d, t) == Put(Put(d, "approved", t, d["pending"][t]), "pending", t, NoFile)

MoveToApproved(ok) ==
  /\ pc = "mu_move"
  /\ IF ~ok
     THEN /\ pc' = "up_fail"
          /\ UNCHANGED <<disk, cur>>
     ELSE IF disk["approved"][cur].kind # "nofile"
     THEN /\ pc' = "mu_rename"
          /\ disk' = Put(disk, "approved", cur, NoFile)
          /\ UNCHANGED cur
     ELSE /\ pc' = "up_next"
          /\ disk' = Renamed(disk, cur)
          /\ cur' = ""
  /\ UNCHANGED <<dry, todo, loaded, sid, apiCalls, wr>>
  /\ HistSame
  /\ QuerySame

\* shutil.move after the unlink of the old target
MoveRename(ok) ==
  /\ pc = "mu_rename"
  /\ IF ~ok
     THEN /\ pc' = "up_fail"
          /\ UNCHANGED <<disk, cur>>
     ELSE /\ pc' = "up_next"
          /\ disk' = Renamed(disk, cur)
          /\ cur' = ""
  /\ UNCHANGED <<dry, todo, loaded, sid, apiCalls, wr>>
  /\ HistSame
  /\ QuerySame

\* StateManager.mark_as_failed raises before it writes anything: it builds
\* ErrorInfo with keyword names the dataclass does not have
MarkAsFailedRaises == ~ErrorInfoAccepts(StateErrorInfoKwargs)

\* the except branch of run_upload: mark_as_failed is called and whatever
\* it raises is swallowed; the loop goes on with the next file
UploadFail ==
  /\ pc = "up_fail"
  /\ MarkAsFailedRaises
  /\ pc' = "up_next"
  /\ upFailed' = upFailed \cup {cur}
  /\ cur' = ""
  /\ UNCHANGED <<disk, dry, todo, loaded, sid, apiCalls, wr,
                 created, analysed, aborted, crashes>>
  /\ QuerySame

\* ------------------------------------------------------------------------
\* KnowledgePipeline.run_analysis and AnalyzerService.analyze_batch
\* ------------------------------------------------------------------------
\* run_analysis up to the start of the batch: discover() over the source
\* tree, return when nothing is admitted
StartAnalysis ==
  /\ pc = "idle"
  /\ admitted' = Discover(disk["src"])
  /\ IF Discover(disk["src"]) = {}
     THEN /\ pc' = "idle"
          /\ todo' = {}
     ELSE /\ pc' = "an_next"
          /\ todo' = Discover(disk["src"])
  /\ aborted' = NoWrite
  /\ UNCHANGED <<disk, dry, cur, loaded, sid, apiCalls, wr, prevAdmitted,
                 discovers, ret, call, dres, req, llm, batch, created,
                 upFailed,
                 analysed, crashes>>

\* analyze_batch takes the next transcript
AnalyzeTake(t) ==
  /\ pc = "an_next"
  /\ t \in todo
  /\ todo' = todo \ {t}
  /\ cur' = t
  /\ pc' = "an_llm"
  /\ UNCHANGED <<disk, dry, loaded, sid, apiCalls, wr>>
  /\ HistSame
  /\ QuerySame

\* analyze_batch is over
AnalyzeDone ==
  /\ pc = "an_next"
  /\ todo = {}
  /\ pc' = "idle"
  /\ UNCHANGED <<disk, dry, todo, cur, loaded, sid, apiCalls, wr>>
  /\ HistSame
  /\ QuerySame

\* llm_client.analyze: a result, or LLMCallError / LLMTimeoutError /
\* LLMRateLimitError, which analyze turns into AnalysisFailedError and the
\* batch loop skips
LlmCall(ok) ==
  /\ pc = "an_llm"
  /\ pc' = IF ok THEN "an_w" ELSE "an_next"
  /\ cur' = IF ok THEN cur ELSE ""
  /\ UNCHANGED <<disk, dry, todo, loaded, sid, apiCalls, wr>>
  /\ HistSame
  /\ QuerySame

\* output_path.write_text(markdown_content)
AnalyzeWriteBegin ==
  /\ WriteBegin("an_w", "pending", cur, AnalyzedFile(cur, disk["src"][cur]),
                "an_wf")
  /\ UNCHANGED <<dry, todo, cur, loaded, sid, apiCalls>>
  /\ HistSame
  /\ QuerySame

AnalyzeWriteEnd ==
  /\ WriteEnd("an_wf", "an_next")
  /\ analysed' = analysed \cup {cur}
  /\ cur' = ""
  /\ UNCHANGED <<dry, todo, loaded, sid, apiCalls, created, upFailed, aborted, crashes>>
  /\ QuerySame

\* ------------------------------------------------------------------------
\* StateManager.mark_as_approved and mark_as_pending, called by a reviewer
\* or another caller of the state API while no run is active
\* ------------------------------------------------------------------------
StageLocs == {"pending", "approved"}

\* self.writer.write_status(filepath, PipelineStatus.APPROVED); a missing
\* file raises FileNotFoundError before anything is written
MarkAsApprovedBegin(loc, t) ==
  /\ disk[loc][t].kind # "nofile"
  /\ WriteBegin("idle", loc, t,
                WriterOutput(disk[loc][t], StatusUpdate("approved")), "ap_wf")
  /\ aborted' = NoWrite
  /\ UNCHANGED <<dry, todo, cur, loaded, sid, apiCalls, created, upFailed,
                 analysed, crashes>>
  /\ QuerySame

MarkAsApprovedEnd ==
  /\ WriteEnd("ap_wf", "idle")
  /\ UNCHANGED <<dry, todo, cur, loaded, sid, apiCalls>>
  /\ HistSame
  /\ QuerySame

\* mark_as_pending: save_analyzed_transcript writes the whole file at the
\* pending path
MarkAsPendingBegin(t) ==
  /\ disk["src"][t].kind # "nofile"
  /\ WriteBegin("idle", "pending", t, SavedFile(t, disk["src"][t]), "mp_wf")
  /\ aborted' = NoWrite
  /\ UNCHANGED <<dry, todo, cur, loaded, sid, apiCalls, created, upFailed,
                 analysed, crashes>>
  /\ QuerySame

MarkAsPendingEnd ==
  /\ WriteEnd("mp_wf", "idle")
  /\ UNCHANGED <<dry, todo, cur, loaded, sid, apiCalls>>
  /\ HistSame
  /\ QuerySame

\* ------------------------------------------------------------------------
\* Process kill
\* ------------------------------------------------------------------------
\* the process dies: everything in memory is gone, the disk stays as it is
Crash ==
  /\ pc # "idle"
  /\ crashes < MaxCrashes
  /\ crashes' = crashes + 1
  /\ pc' = "idle"
  /\ dry' = FALSE
  /\ todo' = {}
  /\ cur' = ""
  /\ loaded' = NULL
  /\ sid' = NULL
  /\ apiCalls' = 0
  /\ wr' = NoWrite
  /\ aborted' = wr
  /\ UNCHANGED <<disk, created, upFailed, analysed>>
  /\ QuerySame

Next ==
  \/ \E d \in BOOLEAN, healthy \in BOOLEAN : StartUpload(d, healthy)
  \/ \E t \in Transcripts : UploadTake(t)
  \/ UploadDone
  \/ EnsureNotebook
  \/ \E ok \in BOOLEAN, id \in SourceIds : CreateSource(ok, id)
  \/ \E ok \in BOOLEAN : UpdateTopics(ok)
  \/ \E ok \in BOOLEAN : LinkNotebook(ok)
  \/ \E ok \in BOOLEAN : TriggerEmbedding(ok)
  \/ TriggerInsights
  \/ MarkUploadedStatusBegin
  \/ MarkUploadedStatusEnd
  \/ MarkUploadedSourceIdBegin
  \/ MarkUploadedSourceIdEnd
  \/ \E ok \in BOOLEAN : MoveToApproved(ok)
  \/ \E ok \in BOOLEAN : MoveRename(ok)
  \/ UploadFail
  \/ StartAnalysis
  \/ \E t \in Transcripts : AnalyzeTake(t)
  \/ AnalyzeDone
  \/ \E ok \in BOOLEAN : LlmCall(ok)
  \/ AnalyzeWriteBegin
  \/ AnalyzeWriteEnd
  \/ \E loc \in StageLocs, t \in Transcripts : MarkAsApprovedBegin(loc, t)
  \/ MarkAsApprovedEnd
  \/ \E t \in Transcripts : MarkAsPendingBegin(t)
  \/ MarkAsPendingEnd
  \/ Crash

Spec == Init /\ [][Next]_vars

TypeOK ==
  /\ pc \in {"idle", "up_next", "up_fail", "up_ensure", "up_create",
             "up_topics", "up_link", "up_embed", "up_insights", "mu_w1",
             "mu_w1f", "mu_w2", "mu_w2f", "mu_move", "mu_rename", "an_next",
             "an_llm", "an_w", "an_wf", "ap_wf", "mp_wf"}
  /\ todo \subseteq Transcripts
  /\ cur \in Transcripts \cup {""}

\* ------------------------------------------------------------------------
\* Eligibility queries over arbitrary trees
\* ------------------------------------------------------------------------
\* number of discover() calls followed in one behaviour
MaxDiscovers == 2

\* header values a file found in a scanned tree can carry
TreeStatuses == {ABSENT, NULL, "", "done"} \cup PipelineStatus
TreeSourceIds == {ABSENT, "source:1"}
TreeErrorCodes == {ABSENT, "TIMEOUT"}
TreeWordCounts == {"50", "150"}

TreeFiles(t) ==
  {File(Merge(SourceHdr(t, st, id, wc), [k \in {"error_code"} |-> ec]),
        SourceBody(t)) :
     st \in TreeStatuses, id \in TreeSourceIds, ec \in TreeErrorCodes,
     wc \in TreeWordCounts}
  \cup {NoFile, HdrCutFile, BadYamlFile, UnreadableFile}

\* the branch of the loop body of discover a file ends in
Classify(c) ==
  IF ReadRaises(c) \/ ParseRaises(c) THEN "parse_error"
  ELSE IF ~ExtractOk(Parse(c).hdr) THEN "extract_error"
  ELSE IF is_processed(Parse(c).hdr) THEN "status"
  ELSE IF WordCount(Parse(c).hdr) < MinWordCount THEN "word_count"
  ELSE "ready"

\* the files scan yields under the tree, and those ending in given branches
Scanned(tree) == {t \in Transcripts : tree[t].kind # "nofile"}
CountOf(tree, classes) ==
  Cardinality({t \in Scanned(tree) : Classify(tree[t]) \in classes})

\* DiscoveryStatistics after discover has gone through the tree
Statistics(tree) ==
  [root |-> "tree", raised |-> "",
   total_scanned |-> Cardinality(Scanned(tree)),
   parsed_success |-> CountOf(tree, {"extract_error", "status", "word_count",
                                     "ready"}),
   parsed_failed |-> CountOf(tree, {"parse_error", "extract_error"}),
   filtered_by_status |-> CountOf(tree, {"status"}),
   filtered_by_word_count |-> CountOf(tree, {"word_count"}),
   filtered_by_channel |-> 0,
   ready_to_process |-> CountOf(tree, {"ready"})]

\* discover(root_dir) of the source tree with the default arguments; it
\* only reads the tree
RunDiscover ==
  /\ pc = "idle"
  /\ discovers < MaxDiscovers
  /\ discovers' = discovers + 1
  /\ prevAdmitted' = admitted
  /\ admitted' = Discover(disk["src"])
  /\ dres' = [Statistics(disk["src"]) EXCEPT
               !.ready_to_process = Cardinality(Discover(disk["src"]))]
  /\ UNCHANGED <<disk, pc, dry, todo, cur, loaded, sid, apiCalls, wr, ret,
                 call, req, llm,
                 batch>>
  /\ HistSame

\* the other roots discover can be given: a path that does not exist, the
\* path of a file, an existing directory with nothing in it
OtherRoots == {"missing", "file", "empty"}

\* scan that only checks that the root exists
ScanRaisesIfMissing(root) == root = "missing"

\* FileScanner.scan raises DirectoryNotFoundError at its first step
ScanRaises(root) == root = "missing" \/ root = "file"

\* discover(root_dir) of one of the other roots: the statistics are reset,
\* then scan raises or yields nothing
DiscoverRoot(root) ==
  /\ pc = "idle"
  /\ root \in OtherRoots
  /\ dres' = [NoDres EXCEPT
               !.root = root,
               !.raised = IF ScanRaises(root) THEN "DirectoryNotFoundError"
                          ELSE ""]
  /\ UNCHANGED <<disk, pc, dry, todo, cur, loaded, sid, apiCalls, wr,
                 admitted, prevAdmitted, discovers, ret, call, req, llm,
                 batch>>
  /\ HistSame

\* StatusChecker.should_retry(frontmatter, force) on the header of a file
\* and IdempotencyChecker.should_retry(filepath, force) on the file
QueryShouldRetry(t, force) ==
  /\ pc = "idle"
  /\ disk["src"][t].kind # "nofile"
  /\ ret' = [t |-> t, force |-> force,
             sc |-> should_retry(Parse(disk["src"][t]).hdr, force),
             ic |-> checker_should_retry(disk["src"][t], force)]
  /\ UNCHANGED <<disk, pc, dry, todo, cur, loaded, sid, apiCalls, wr,
                 admitted, prevAdmitted, discovers, call, dres, req, llm,
                 batch>>
  /\ HistSame

\* the files of a tree that differ in status only: long enough, no
\* source_id, no error_code
PlainTreeFiles(t) ==
  {f \in TreeFiles(t) :
     f.kind = "full" => /\ f.hdr["word_count"] = "150"
                        /\ f.hdr["source_id"] = ABSENT
                        /\ f.hdr["error_code"] = ABSENT}

\* the scanned tree: any file for t1, next to it a plain file for the others
InitD ==
  /\ \E tree \in [Transcripts -> UNION {TreeFiles(t) : t \in Transcripts}] :
       /\ \A t \in Transcripts :
            tree[t] \in IF t = "t1" THEN TreeFiles(t) ELSE PlainTreeFiles(t)
       /\ disk = [loc \in Locs |-> [t \in Transcripts |->
                    IF loc = "src" THEN tree[t] ELSE NoFile]]
  /\ pc = "idle"
  /\ dry = FALSE
  /\ todo = {}
  /\ cur = ""
  /\ loaded = NULL
  /\ sid = NULL
  /\ apiCalls = 0
  /\ wr = NoWrite
  /\ admitted = {}
  /\ prevAdmitted = {}
  /\ discovers = 0
  /\ ret = NoRet
  /\ call = NoCall
  /\ dres = NoDres
  /\ req = NoReq
  /\ llm = NoLlm
  /\ batch = NoBatch
  /\ created = [t \in Transcripts |-> 0]
  /\ upFailed = {}
  /\ analysed = {}
  /\ aborted = NoWrite
  /\ crashes = 0

NextD ==
  \/ RunDiscover
  \/ \E root \in OtherRoots : DiscoverRoot(root)
  \/ \E t \in Transcripts, force \in BOOLEAN : QueryShouldRetry(t, force)

SpecD == InitD /\ [][NextD]_vars

\* ------------------------------------------------------------------------
\* The state API called on its own on a staged file (FrontmatterWriter,
\* FileMover, StateManager), each call taken as a whole
\* ------------------------------------------------------------------------
ErrorKeys == {"error", "error_code", "failed_at"}

\* header values a staged file can carry when the API is called on it
StagedStatuses == {ABSENT, "done"} \cup PipelineStatus
StagedSourceIds == {NULL, "source:1"}

\* which error fields a staged file has: none, all three, error_code only
ErrKinds == {"none", "all", "code"}

ErrorFields(err) ==
  [k \in ErrorKeys |->
     CASE k = "error" -> IF err = "all" THEN "boom" ELSE ABSENT
       [] k = "error_code" -> IF err = "none" THEN ABSENT ELSE "TIMEOUT"
       [] OTHER -> IF err = "all" THEN "2026-01-06T00:00:00" ELSE ABSENT]

\* an analysed file with the given status, source_id and error fields
StagedFile(t, status, id, err, nl) ==
  File(Merge(Merge(AnalyzedFile(t, FreshSource(t)).hdr,
                   [k \in {"status", "source_id"} |->
                      IF k = "status" THEN status ELSE id]),
             ErrorFields(err)),
       Body(t, nl))

\* a file with no header block at all: the text is the body
PlainFile(t) == File(EmptyHdr, Body(t, FALSE))

StagedFiles(t) ==
  {StagedFile(t, st, id, err, nl) :
     st \in StagedStatuses, id \in StagedSourceIds, err \in ErrKinds,
     nl \in BOOLEAN}
  \cup {HdrCutFile, BadYamlFile, PlainFile(t)}

\* the arguments of mark_as_failed and the value of datetime.now()
FailMessage == "upload failed"
FailCode == "UPLOAD_ERROR"
Now == "2026-01-07T00:00:00"

\* the updates write_error hands to write
ErrorUpdate(message, code, timestamp) ==
  [k \in ErrorKeys \cup {"status"} |->
     CASE k = "error" -> message
       [] k = "error_code" -> code
       [] k = "failed_at" -> timestamp
       [] OTHER -> "failed"]

\* write_error reads error.message, error.code and error.timestamp, which
\* an ErrorInfo does not have: AttributeError before write is called
WriteErrorAttrs == {"message", "code", "timestamp"}
WriteErrorRaises == ~(WriteErrorAttrs \subseteq ErrorInfoFields)

\* the tree after FileMover._move_file of the file of t from one directory
\* to another: an existing target is unlinked, then shutil.move renames;
\* ok = FALSE is an OSError from shutil.move
Unlinked(d, to, t) ==
  IF d[to][t].kind # "nofile" THEN Put(d, to, t, NoFile) ELSE d

MoveRaises(d, from, to, t, ok) ==
  ~ok \/ Unlinked(d, to, t)[from][t].kind = "nofile"

Moved(d, from, to, t, ok) ==
  LET d1 == Unlinked(d, to, t)
  IN IF MoveRaises(d, from, to, t, ok) THEN d1
     ELSE Put(Put(d1, from, t, NoFile), to, t, d1[from][t])

\* get_file_status without the failed branch set to False
CanProcessFailedToo(status) ==
  status = NULL \/ status = "failed"

\* can_process as get_file_status computes it from the status it read
CanProcess(status) ==
  IF status = NULL THEN TRUE
  ELSE IF status = "failed" THEN FALSE
  ELSE FALSE

\* get_file_status that asks should_retry with force
FileStateForced(c) ==
  [status |-> read_status(c), can_process |-> checker_should_retry(c, TRUE)]

\* the FileState get_file_status returns for the content at a path
FileState(c) ==
  [status |-> read_status(c), can_process |-> CanProcess(read_status(c))]

\* a call ends: the tree is d2, the call is recorded
Called(op, loc, t, to, arg, raised, d2, can) ==
  /\ pc = "idle"
  /\ disk' = d2
  /\ call' = [op |-> op, loc |-> loc, t |-> t, to |-> to, arg |-> arg,
              raised |-> raised, before |-> disk, can |-> can]
  /\ UNCHANGED <<pc, dry, todo, cur, loaded, sid, apiCalls, wr, admitted,
                 prevAdmitted, discovers, ret, dres, req, llm,
                 batch>>
  /\ HistSame

\* FrontmatterWriter.write(filepath, updates) as one call; an error of
\* parse is raised as FrontmatterWriteError before anything is written
Written(op, loc, t, arg, u) ==
  IF disk[loc][t].kind = "nofile"
  THEN Called(op, loc, t, "", arg, "FileNotFoundError", disk, FALSE)
  ELSE IF ReadRaises(disk[loc][t]) \/ ParseRaises(disk[loc][t])
  THEN Called(op, loc, t, "", arg, "FrontmatterWriteError", disk, FALSE)
  ELSE Called(op, loc, t, "", arg, "",
              Put(disk, loc, t, WriterOutput(disk[loc][t], u)), FALSE)

\* the updates write is called with: the status and id of an upload, a null
\* source_id, a null for a key the header may not have
UpdateNames == {"upload", "null_id", "null_error"}

UpdatesOf(name) ==
  CASE name = "upload" ->
         [k \in {"status", "source_id"} |->
            IF k = "status" THEN "uploaded" ELSE "x:1"]
    [] name = "null_id" -> [k \in {"source_id"} |-> NULL]
    [] OTHER -> [k \in {"error"} |-> NULL]

\* FrontmatterWriter.write(filepath, updates)
write(loc, t, name) ==
  /\ name \in UpdateNames
  /\ Written("write", loc, t, name, UpdatesOf(name))

\* FrontmatterReader.read(filepath): the header is HdrOf the file, an error
\* of parse is raised as FrontmatterReadError
read(loc, t) ==
  /\ loc \in StageLocs
  /\ Called("read", loc, t, "", "",
            IF disk[loc][t].kind = "nofile" THEN "FileNotFoundError"
            ELSE IF ReadRaises(disk[loc][t]) \/ ParseRaises(disk[loc][t])
            THEN "FrontmatterReadError"
            ELSE "",
            disk, FALSE)

write_status(loc, t, status) ==
  /\ status \in PipelineStatus
  /\ Written("write_status", loc, t, status, StatusUpdate(status))

write_error(loc, t) ==
  IF WriteErrorRaises
  THEN Called("write_error", loc, t, "", "", "AttributeError", disk, FALSE)
  ELSE Written("write_error", loc, t, "",
               ErrorUpdate(FailMessage, FailCode, Now))

mark_as_approved(loc, t) ==
  /\ loc \in StageLocs
  /\ Written("mark_as_approved", loc, t, "", StatusUpdate("approved"))

mark_as_failed(loc, t) ==
  IF MarkAsFailedRaises
  THEN Called("mark_as_failed", loc, t, "", "", "TypeError", disk, FALSE)
  ELSE Written("mark_as_failed", loc, t, "",
               ErrorUpdate(FailMessage, FailCode, Now))

\* mark_as_uploaded(filepath, source_id, intermediate_dir) run to its end:
\* the two header writes, then move_to_approved
mark_as_uploaded(loc, t, id, ok) ==
  IF disk[loc][t].kind = "nofile"
  THEN Called("mark_as_uploaded", loc, t, "approved", id,
              "FileNotFoundError", disk, FALSE)
  ELSE IF ReadRaises(disk[loc][t]) \/ ParseRaises(disk[loc][t])
  THEN Called("mark_as_uploaded", loc, t, "approved", id,
              "FrontmatterWriteError", disk, FALSE)
  ELSE LET c1 == WriterOutput(disk[loc][t], StatusUpdate("uploaded"))
           c2 == WriterOutput(c1, SourceIdUpdate(id))
           d2 == Put(disk, loc, t, c2)
       IN Called("mark_as_uploaded", loc, t, "approved", id,
                 IF MoveRaises(d2, loc, "approved", t, ok)
                 THEN "FileMoveError" ELSE "",
                 Moved(d2, loc, "approved", t, ok), FALSE)

\* move_to_pending / move_to_approved on a path
move_file(from, to, t, ok) ==
  /\ to \in StageLocs
  /\ Called("move_file", from, t, to, "",
            IF MoveRaises(disk, from, to, t, ok) THEN "FileMoveError" ELSE "",
            Moved(disk, from, to, t, ok), FALSE)

get_file_status(loc, t) ==
  /\ loc \in StageLocs
  /\ Called("get_file_status", loc, t, "", "", "", disk,
            FileState(disk[loc][t]).can_process)

\* the tree the calls start from: one staged file of t1 in one stage
\* directory, the other directory empty or holding an analysed file of t1
InitS ==
  /\ \E loc \in StageLocs, c \in StagedFiles("t1"), occ \in BOOLEAN :
       disk = [l \in Locs |-> [t \in Transcripts |->
                 IF t # "t1" \/ l = "src" THEN NoFile
                 ELSE IF l = loc THEN c
                 ELSE IF occ THEN AnalyzedFile(t, FreshSource(t))
                 ELSE NoFile]]
  /\ pc = "idle"
  /\ dry = FALSE
  /\ todo = {}
  /\ cur = ""
  /\ loaded = NULL
  /\ sid = NULL
  /\ apiCalls = 0
  /\ wr = NoWrite
  /\ admitted = {}
  /\ prevAdmitted = {}
  /\ discovers = 0
  /\ ret = NoRet
  /\ call = NoCall
  /\ dres = NoDres
  /\ req = NoReq
  /\ llm = NoLlm
  /\ batch = NoBatch
  /\ created = [t \in Transcripts |-> 0]
  /\ upFailed = {}
  /\ analysed = {}
  /\ aborted = NoWrite
  /\ crashes = 0

NextS ==
  \/ \E loc \in StageLocs, t \in Transcripts, st \in PipelineStatus :
       write_status(loc, t, st)
  \/ \E loc \in StageLocs, t \in Transcripts : write_error(loc, t)
  \/ \E loc \in StageLocs, t \in Transcripts : mark_as_approved(loc, t)
  \/ \E loc \in StageLocs, t \in Transcripts : mark_as_failed(loc, t)
  \/ \E loc \in StageLocs, t \in Transcripts, id \in SourceIds,
        ok \in BOOLEAN : mark_as_uploaded(loc, t, id, ok)
  \/ \E from \in StageLocs, to \in StageLocs, t \in Transcripts,
        ok \in BOOLEAN : move_file(from, to, t, ok)
  \/ \E loc \in StageLocs, t \in Transcripts : get_file_status(loc, t)
  \/ \E loc \in StageLocs, t \in Transcripts : read(loc, t)

SpecS == InitS /\ [][NextS]_vars

\* FrontmatterWriter.write and FrontmatterReader.read alone, from the same
\* trees
NextW ==
  \/ \E loc \in StageLocs, t \in Transcripts, name \in UpdateNames :
       write(loc, t, name)
  \/ \E loc \in StageLocs, t \in Transcripts : read(loc, t)

SpecW == InitS /\ [][NextW]_vars

\* ------------------------------------------------------------------------
\* OpenNotebookClient._make_request with FixedDelayRetry (uploader.py)
\* ------------------------------------------------------------------------
\* largest max_attempts a client is built with
MaxAttempts == 3

\* FixedDelayRetry.delay, its default 5.0 in seconds
Delay == 5

\* status codes of the responses the server can give
StatusCodes == {200, 201, 400, 401, 403, 404, 429, 500, 503}

\* exceptions session.request can raise that _make_request handles
RequestExceptions == {"Timeout", "RequestException"}

\* the endpoints of a call, and "notebook" in endpoint.lower()
Endpoints == {"/api/notebooks", "/api/sources/json", "/api/embed"}
HasNotebook(endpoint) == endpoint = "/api/notebooks"

\* what one session.request ends with: a response, or an exception
Response(code) == [kind |-> "response", code |-> code]
Exception(e) == [kind |-> e, code |-> NoneCode]

\* a response whose text is not empty and is not JSON: response.json()
\* raises requests.exceptions.JSONDecodeError, a requests.RequestException
Undecodable(code) == [kind |-> "undecodable", code |-> code]

\* FixedDelayRetry.should_retry(status_code, attempt); status_code None is
\* NoneCode
FixedDelayRetry_should_retry(status_code, attempt, max_attempts) ==
  IF attempt >= max_attempts THEN FALSE
  ELSE IF status_code # NoneCode /\ 500 <= status_code /\ status_code < 600
  THEN TRUE
  ELSE IF status_code = 429 THEN TRUE
  ELSE IF status_code = NoneCode THEN TRUE
  ELSE FALSE

\* a delay that grows with the attempt
get_delay_growing(attempt) == Delay * attempt

\* FixedDelayRetry.get_delay(attempt)
get_delay(attempt) == Delay

\* the loop of _make_request has an iteration to run
RequestLoops ==
  /\ req.max_attempts > 0
  /\ req.result = ""
  /\ req.attempt < req.max_attempts

\* how an iteration ends: sleep and continue, raise, return
Retried(o) ==
  [req EXCEPT !.attempt = @ + 1, !.outs = Append(@, o),
              !.slept = Append(@, get_delay(req.attempt + 1))]

Raised(o, exc, status_code) ==
  [req EXCEPT !.attempt = @ + 1, !.outs = Append(@, o), !.result = exc,
              !.status_code = status_code]

Returned(o) ==
  [req EXCEPT !.attempt = @ + 1, !.outs = Append(@, o), !.result = "return"]

RequestSame ==
  /\ UNCHANGED <<disk, pc, dry, todo, cur, loaded, sid, apiCalls, wr,
                 admitted, prevAdmitted, discovers, ret, call, dres, llm,
                 batch>>
  /\ HistSame

\* one iteration in which session.request returns a response
make_request_response(code) ==
  /\ RequestLoops
  /\ code \in StatusCodes
  /\ LET o == Response(code)
         attempt == req.attempt + 1
     IN req' =
          IF code = 200 \/ code = 201 THEN Returned(o)
          ELSE IF code = 401 THEN Raised(o, "AuthenticationError", NoneCode)
          ELSE IF code = 404
          THEN Raised(o, IF HasNotebook(req.endpoint)
                         THEN "NotebookNotFoundError"
                         ELSE "SourceNotFoundError", NoneCode)
          ELSE IF code = 429
          THEN (IF FixedDelayRetry_should_retry(429, attempt, req.max_attempts)
                THEN Retried(o)
                ELSE Raised(o, "RateLimitError", NoneCode))
          ELSE IF FixedDelayRetry_should_retry(code, attempt, req.max_attempts)
          THEN Retried(o)
          ELSE Raised(o, "APIError", code)
  /\ RequestSame

\* one iteration in which session.request raises requests.Timeout or
\* another requests.RequestException
make_request_exception(e) ==
  /\ RequestLoops
  /\ e \in RequestExceptions
  /\ LET o == Exception(e)
         attempt == req.attempt + 1
     IN req' =
          IF FixedDelayRetry_should_retry(NoneCode, attempt, req.max_attempts)
          THEN Retried(o)
          ELSE Raised(o, "APIError", NoneCode)
  /\ RequestSame

\* one iteration in which session.request returns a 200 or 201 response and
\* response.json() raises: the RequestException handler takes it
make_request_undecodable(code) ==
  /\ RequestLoops
  /\ code \in {200, 201}
  /\ LET o == Undecodable(code)
         attempt == req.attempt + 1
     IN req' =
          IF FixedDelayRetry_should_retry(NoneCode, attempt, req.max_attempts)
          THEN Retried(o)
          ELSE Raised(o, "APIError", NoneCode)
  /\ RequestSame

\* trigger_embedding after its _make_request call is over: an APIError
\* whose status_code is 404 is ignored, any other APIError is raised again
trigger_embedding ==
  /\ req.endpoint = "/api/embed"
  /\ req.result # ""
  /\ req.embed = ""
  /\ req' = [req EXCEPT !.embed =
               IF req.result = "return" THEN "return"
               ELSE IF req.status_code = 404 THEN "return"
               ELSE req.result]
  /\ RequestSame

\* a call of _make_request on a client built with max_attempts 1 and more
InitH ==
  /\ \E m \in 1..MaxAttempts, e \in Endpoints :
       req = [NoReq EXCEPT !.max_attempts = m, !.endpoint = e]
  /\ disk = EmptyDisk
  /\ pc = "idle"
  /\ dry = FALSE
  /\ todo = {}
  /\ cur = ""
  /\ loaded = NULL
  /\ sid = NULL
  /\ apiCalls = 0
  /\ wr = NoWrite
  /\ admitted = {}
  /\ prevAdmitted = {}
  /\ discovers = 0
  /\ ret = NoRet
  /\ call = NoCall
  /\ dres = NoDres
  /\ llm = NoLlm
  /\ batch = NoBatch
  /\ created = [t \in Transcripts |-> 0]
  /\ upFailed = {}
  /\ analysed = {}
  /\ aborted = NoWrite
  /\ crashes = 0

NextH ==
  \/ \E code \in StatusCodes : make_request_response(code)
  \/ \E e \in RequestExceptions : make_request_exception(e)
  \/ \E code \in {200, 201} : make_request_undecodable(code)
  \/ trigger_embedding

SpecH == InitH /\ [][NextH]_vars

\* ------------------------------------------------------------------------
\* GeminiCLIProvider._call_gemini_with_streaming (llm/gemini_cli.py)
\* ------------------------------------------------------------------------
\* largest max_retries a provider is built with
MaxRetries == 4

\* values of initial_retry_delay: the default, and one the cap cuts
RetryDelays == {3, 40}

\* the cap on the delay of a quota retry
MaxQuotaDelay == 60

\* how a gemini process that ran to its end ended: exit code 0, a non-zero
\* exit code with a quota marker in stderr, another non-zero exit code
GeminiExits == {"ok", "quota", "fail"}

RECURSIVE Pow2(_)
Pow2(n) == IF n = 0 THEN 1 ELSE 2 * Pow2(n - 1)

Min(a, b) == IF a < b THEN a ELSE b

\* a quota delay without the cap
QuotaDelayUncapped(base, attempt) == base * Pow2(attempt - 1)

\* min(initial_retry_delay * (2 ** (attempt - 1)), 60)
QuotaDelay(base, attempt) == Min(base * Pow2(attempt - 1), MaxQuotaDelay)

\* initial_retry_delay * attempt, slept after a timeout
TimeoutDelay(base, attempt) == base * attempt

\* a timeout that is never taken as the last one
TimeoutNeverFinal(attempt, max_retries) == FALSE

\* attempt == self.max_retries in the TimeoutExpired handler
TimeoutIsFinal(attempt, max_retries) == attempt = max_retries

\* the loop of _call_gemini_with_streaming has an iteration to run
GeminiLoops ==
  /\ llm.max_retries > 0
  /\ llm.result = ""
  /\ llm.attempt < llm.max_retries

GeminiSame ==
  /\ UNCHANGED <<disk, pc, dry, todo, cur, loaded, sid, apiCalls, wr,
                 admitted, prevAdmitted, discovers, ret, call, dres, req,
                 batch>>
  /\ HistSame

\* one iteration in which subprocess.run returns
call_gemini_exit(o) ==
  /\ GeminiLoops
  /\ o \in GeminiExits
  /\ LET attempt == llm.attempt + 1
         done == [llm EXCEPT !.attempt = attempt, !.outs = Append(@, o)]
     IN llm' =
          IF o = "ok"
          THEN [done EXCEPT !.result = "return", !.output = attempt]
          ELSE IF o = "quota"
          THEN (IF attempt < llm.max_retries
                THEN [done EXCEPT !.slept =
                        Append(@, QuotaDelay(llm.initial_retry_delay, attempt))]
                ELSE [done EXCEPT !.result = "LLMRateLimitError",
                                  !.retry_after =
                                    IF attempt < llm.max_retries
                                    THEN QuotaDelay(llm.initial_retry_delay,
                                                    attempt)
                                    ELSE NoneDelay])
          ELSE [done EXCEPT !.result = "LLMCallError"]
  /\ GeminiSame

\* one iteration in which subprocess.run raises TimeoutExpired
call_gemini_timeout ==
  /\ GeminiLoops
  /\ LET attempt == llm.attempt + 1
         done == [llm EXCEPT !.attempt = attempt, !.outs = Append(@, "timeout")]
     IN llm' =
          IF TimeoutIsFinal(attempt, llm.max_retries)
          THEN [done EXCEPT !.result = "LLMTimeoutError"]
          ELSE [done EXCEPT !.slept =
                  Append(@, TimeoutDelay(llm.initial_retry_delay, attempt))]
  /\ GeminiSame

\* a call of _call_gemini_with_streaming on a provider built with
\* max_retries 1 and more
InitL ==
  /\ \E m \in 1..MaxRetries, base \in RetryDelays :
       llm = [NoLlm EXCEPT !.max_retries = m, !.initial_retry_delay = base]
  /\ disk = EmptyDisk
  /\ pc = "idle"
  /\ dry = FALSE
  /\ todo = {}
  /\ cur = ""
  /\ loaded = NULL
  /\ sid = NULL
  /\ apiCalls = 0
  /\ wr = NoWrite
  /\ admitted = {}
  /\ prevAdmitted = {}
  /\ discovers = 0
  /\ ret = NoRet
  /\ call = NoCall
  /\ dres = NoDres
  /\ req = NoReq
  /\ batch = NoBatch
  /\ created = [t \in Transcripts |-> 0]
  /\ upFailed = {}
  /\ analysed = {}
  /\ aborted = NoWrite
  /\ crashes = 0

NextL ==
  \/ \E o \in GeminiExits : call_gemini_exit(o)
  \/ call_gemini_timeout

SpecL == InitL /\ [][NextL]_vars

\* ------------------------------------------------------------------------
\* The batch loops: AnalyzerService.analyze_batch (under run_analysis),
\* KnowledgePipeline.run_upload, UploaderService.upload_batch
\* ------------------------------------------------------------------------
\* largest number of items in a batch
MaxItems == 4

BatchLoops == {"analyze_batch", "run_upload", "upload_batch"}

\* how the processing of one item ends: it returns, it raises the typed
\* failure of the step (AnalysisFailedError, UploadError), it raises another
\* exception (TypeError, KeyError)
ItemOutcomes == {"ok", "typed", "other"}

\* a loop whose except clause catches nothing
CatchesNothing(loop, o) == FALSE

\* the except clause of the loop body catches the exception: analyze_batch
\* has except AnalysisFailedError, run_upload except Exception, upload_batch
\* except UploadError
Catches(loop, o) ==
  CASE loop = "analyze_batch" -> o = "typed"
    [] loop = "run_upload" -> o \in {"typed", "other"}
    [] OTHER -> o = "typed"

\* time.sleep(delay_between_calls): in analyze_batch only, after an item
\* that returned a result, when it is not the last one
SleepsAfter(loop, o, i, total) ==
  loop = "analyze_batch" /\ o = "ok" /\ i < total

\* what main returns after the loop: run_analysis catches every Exception
\* of analyze_batch and returns, run_upload returns, and main returns 0;
\* upload_batch has no caller under main
ExitOf(loop) == IF loop = "upload_batch" THEN NoExit ELSE 0

\* one iteration of a batch loop on the next item
BatchItem(loop, o) ==
  /\ batch.loop = loop
  /\ batch.result = ""
  /\ batch.i < batch.total
  /\ LET i == batch.i + 1
         seen == [batch EXCEPT !.i = i, !.outs = Append(@, o),
                               !.events = Append(@, o)]
     IN batch' =
          IF o = "ok" \/ Catches(loop, o)
          THEN [seen EXCEPT
                  !.events = IF SleepsAfter(loop, o, i, batch.total)
                             THEN Append(@, "sleep") ELSE @,
                  !.result = IF i = batch.total THEN "return" ELSE "",
                  !.exit = IF i = batch.total THEN ExitOf(loop) ELSE NoExit]
          ELSE [seen EXCEPT !.result = "raised", !.exit = ExitOf(loop)]
  /\ UNCHANGED <<disk, pc, dry, todo, cur, loaded, sid, apiCalls, wr,
                 admitted, prevAdmitted, discovers, ret, call, dres, req,
                 llm>>
  /\ HistSame

analyze_batch_item(o) ==
  /\ o \in ItemOutcomes
  /\ BatchItem("analyze_batch", o)

run_upload_item(o) ==
  /\ o \in ItemOutcomes
  /\ BatchItem("run_upload", o)

upload_batch_item(o) ==
  /\ o \in ItemOutcomes
  /\ BatchItem("upload_batch", o)

\* a batch loop given one item and more
InitB ==
  /\ \E loop \in BatchLoops, n \in 1..MaxItems :
       batch = [NoBatch EXCEPT !.loop = loop, !.total = n]
  /\ disk = EmptyDisk
  /\ pc = "idle"
  /\ dry = FALSE
  /\ todo = {}
  /\ cur = ""
  /\ loaded = NULL
  /\ sid = NULL
  /\ apiCalls = 0
  /\ wr = NoWrite
  /\ admitted = {}
  /\ prevAdmitted = {}
  /\ discovers = 0
  /\ ret = NoRet
  /\ call = NoCall
  /\ dres = NoDres
  /\ req = NoReq
  /\ llm = NoLlm
  /\ created = [t \in Transcripts |-> 0]
  /\ upFailed = {}
  /\ analysed = {}
  /\ aborted = NoWrite
  /\ crashes = 0

NextB ==
  \/ \E o \in ItemOutcomes : analyze_batch_item(o)
  \/ \E o \in ItemOutcomes : run_upload_item(o)
  \/ \E o \in ItemOutcomes : upload_batch_item(o)

SpecB == InitB /\ [][NextB]_vars

\* ------------------------------------------------------------------------
\* Properties
\* ------------------------------------------------------------------------
\* the calls that go through FrontmatterWriter.write
WriterOps == {"mu_w1f", "mu_w2f", "ap_wf"}

\* C1: after a crash during FrontmatterWriter.write on an existing file, a
\* read of the path returns the complete old content or the complete new
\* content, never an empty, truncated or partial one.
C1_AtomicWrite ==
  (aborted.op \in WriterOps /\ aborted.old.kind = "full") =>
     Parse(disk[aborted.loc][aborted.t]) \in {Parse(aborted.old), Parse(aborted.new)}

\* C2: over every sequence of runs, interrupted or not, create-source
\* succeeds at most once per analysed file.
C2_NoDuplicateUpload ==
  \A t \in Transcripts : created[t] <= 1

\* the positions of run_upload at which cur is being uploaded
UploadPcs == {"up_ensure", "up_create", "up_topics", "up_link", "up_embed",
              "up_insights", "mu_w1", "mu_w1f", "mu_w2", "mu_w2f", "mu_move",
              "mu_rename", "up_fail"}

\* C3: when the header of a file already has status uploaded, the upload
\* step makes no external API call for it.
C3_UploadedNotReuploaded ==
  (pc \in UploadPcs /\ loaded = "uploaded") => apiCalls = 0

\* C4: once an upload attempt for a file has ended in a failure, later
\* upload runs (run_upload has no force flag) make no external call for it.
C4_FailedNotRetried ==
  (pc \in UploadPcs /\ cur \in upFailed) => apiCalls = 0

\* C5: a transcript whose analysed file was written in an earlier run is
\* not admitted by a later discovery and not sent to the LLM again.
C5_AnalysedNotReanalysed ==
  ~(pc \in {"an_llm", "an_w"} /\ cur \in analysed)

\* every file of the scanned tree has status pending, approved or uploaded
AllProcessed ==
  \A t \in Transcripts :
    disk["src"][t].kind # "nofile" =>
      /\ disk["src"][t].kind = "full"
      /\ disk["src"][t].hdr["status"] \in {"pending", "approved", "uploaded"}

\* C6: on a tree whose files all have status pending, approved or uploaded,
\* two consecutive discover() calls return the same set, and it is empty.
C6_IdempotentRescan ==
  (discovers >= 2 /\ AllProcessed) => (admitted = prevAdmitted /\ admitted = {})

C6_Witness ==
  /\ discovers >= 2
  /\ AllProcessed
  /\ \A t \in Transcripts :
       /\ disk["src"][t].kind = "full"
       /\ disk["src"][t].hdr["word_count"] = "150"
  /\ \E t \in Transcripts : disk["src"][t].hdr["status"] = "pending"

C8_RetryGating ==
  (ret.t # "" /\ disk["src"][ret.t].hdr["status"] = "failed") =>
     (ret.sc = ret.force /\ ret.ic = ret.force)

C8_Witness ==
  /\ ret.t # ""
  /\ disk["src"][ret.t].hdr["status"] = "failed"
  /\ disk["src"][ret.t].hdr["error_code"] = "TIMEOUT"
  /\ ret.force
  /\ ret.sc

\* the status a reader sees at a path; while a write_text is under way it
\* is the status of the content being replaced
ViewOf(d, w, loc, t) ==
  IF w.loc = loc /\ w.t = t THEN w.old ELSE d[loc][t]

StatusOf(c) == get_status(Parse(c).hdr)

Rank(s) ==
  CASE s = "pending" -> 1
    [] s = "approved" -> 2
    [] s = "uploaded" -> 3
    [] OTHER -> 0

\* a step backward along none -> pending -> approved -> uploaded, or any
\* change away from uploaded
Backward(old, new) ==
  \/ old # "failed" /\ new # "failed" /\ Rank(new) < Rank(old)
  \/ old = "uploaded" /\ new # "uploaded"

\* C9: the status in a file never moves backward along
\* none -> pending -> approved -> uploaded, and an uploaded file never
\* changes status again (a path whose file was moved away or cut by a crash
\* is not compared).
C9_MonotonicStatus ==
  [][\A loc \in StageLocs, t \in Transcripts :
       ViewOf(disk', wr', loc, t).kind = "full" =>
         ~Backward(StatusOf(ViewOf(disk, wr, loc, t)),
                   StatusOf(ViewOf(disk', wr', loc, t)))]_vars

\* C10: between operations and after a crash, a file whose status is
\* uploaded has a non-empty source_id in the same header.
C10_UploadedHasSourceId ==
  pc = "idle" =>
    \A loc \in StageLocs, t \in Transcripts :
      (disk[loc][t].kind = "full" /\ disk[loc][t].hdr["status"] = "uploaded")
         => disk[loc][t].hdr["source_id"] \notin {ABSENT, NULL, ""}

\* the header a reader gets from the content at a path
HdrOf(c) == Parse(c).hdr

\* every file of the tree with status failed has the three error fields
FailedHasError(d) ==
  \A loc \in Locs, t \in Transcripts :
    (d[loc][t].kind # "nofile" /\ HdrOf(d[loc][t])["status"] = "failed") =>
       \A k \in ErrorKeys : HdrOf(d[loc][t])[k] # ABSENT

\* C11: whenever a file's header status is failed, error, error_code and
\* failed_at are all present in it: no call of the state API on a tree
\* where this holds leaves a tree where it does not.
C11_FailedHasErrorFields ==
  (call.op # "" /\ FailedHasError(call.before)) => FailedHasError(disk)

\* C12: after mark_as_approved or mark_as_uploaded has returned on a file
\* that had status failed, the file (whose status is then approved or
\* uploaded) has none of error, error_code, failed_at.
C12_ErrorOnlyWhenFailed ==
  (/\ call.op \in {"mark_as_approved", "mark_as_uploaded"}
   /\ call.raised = ""
   /\ HdrOf(call.before[call.loc][call.t])["status"] = "failed") =>
     LET c == disk[IF call.op = "mark_as_uploaded" THEN call.to ELSE call.loc][call.t]
     IN \A k \in ErrorKeys : HdrOf(c)[k] = ABSENT

\* the stage directory of every file agrees with its status
LocationAgrees(d) ==
  \A t \in Transcripts :
    /\ d["approved"][t].kind = "full" =>
         d["approved"][t].hdr["status"] = "uploaded"
    /\ \A loc \in StageLocs :
         (d[loc][t].kind = "full" /\ d[loc][t].hdr["status"] = "uploaded") =>
            loc = "approved"

\* C13: while every transition so far has completed successfully (no crash,
\* no failed upload, no call under way), every file under approved/ has
\* status uploaded and every file with status uploaded is under approved/.
C13_LocationAgreesWithStatus ==
  (pc = "idle" /\ crashes = 0 /\ upFailed = {}) => LocationAgrees(disk)

\* the file carries status uploaded and the source id
UploadedWith(c, id) ==
  /\ c.kind = "full"
  /\ c.hdr["status"] = "uploaded"
  /\ c.hdr["source_id"] = id

\* C14: in mark_as_uploaded both header writes are complete when the
\* relocation starts, and when the relocation fails the file at its
\* original path carries status uploaded and the source id.
C14_HeaderBeforeMove ==
  [][(pc \in {"mu_move", "mu_rename"}) =>
       (UploadedWith(disk["pending"][cur], sid) /\
        (pc' = "up_fail" => UploadedWith(disk'["pending"][cur], sid)))]_vars

C14_Witness ==
  /\ pc = "up_fail"
  /\ loaded = "pending"
  /\ sid = "source:1"
  /\ UploadedWith(disk["pending"][cur], sid)
  /\ disk["approved"][cur].kind = "nofile"

\* C15: an upload run that meets a file with status uploaded under pending/
\* re-issues the move: its processing of the file fails only if the move
\* itself raises, never because of a call to the external API.
C15_StrandedFileRelocated ==
  [][(pc \in UploadPcs /\ loaded = "uploaded" /\ pc' = "up_fail") =>
       pc \in {"mu_move", "mu_rename"}]_vars

\* C16: mark_as_failed(path, message, code) on an existing file returns
\* normally and leaves status failed, error = message, error_code = code and
\* failed_at = now in the header.
C16_MarkAsFailedWrites ==
  (call.op = "mark_as_failed" /\ call.before[call.loc][call.t].kind = "full") =>
     /\ call.raised = ""
     /\ HdrOf(disk[call.loc][call.t]) =
          Merge(HdrOf(call.before[call.loc][call.t]),
                ErrorUpdate(FailMessage, FailCode, Now))

\* the header keys a call sets
SetKeys(op) ==
  IF op = "mark_as_failed" THEN ErrorKeys \cup {"status"} ELSE {"status"}

C18_MoveKeepsFile ==
  (call.op = "move_file" /\ call.before[call.loc][call.t].kind # "nofile") =>
     \/ disk[call.loc][call.t] = call.before[call.loc][call.t]
     \/ disk[call.to][call.t] = call.before[call.loc][call.t]

\* C19 as claimed: can_process is true if and only if the status is absent
\* or failed.
C19_CanProcessAbsentOrFailed ==
  call.op = "get_file_status" =>
    (call.can <=> (\/ disk[call.loc][call.t].kind # "full"
                   \/ disk[call.loc][call.t].hdr["status"]
                        \notin {"pending", "approved", "uploaded"}))

\* C19 as amended: can_process is true if and only if no status can be read
\* (no file, no header, no status key, or a value that is not a pipeline
\* status); it is false for failed as for pending, approved and uploaded.
C19_CanProcessOnlyWithoutStatus ==
  call.op = "get_file_status" =>
    (call.can <=> (\/ disk[call.loc][call.t].kind # "full"
                   \/ disk[call.loc][call.t].hdr["status"] \notin PipelineStatus))

C19_Witness ==
  /\ call.op = "get_file_status"
  /\ disk[call.loc][call.t].kind = "full"
  /\ disk[call.loc][call.t].hdr["status"] = "failed"
  /\ disk[call.loc][call.t].hdr["error"] = "boom"
  /\ ~call.can

\* C20: for a file whose header has status failed and error_code TIMEOUT,
\* get_file_status (which takes no force) returns can_process = false.
C20_FailedTimeoutNotRetried ==
  (/\ call.op = "get_file_status"
   /\ disk[call.loc][call.t].kind = "full"
   /\ disk[call.loc][call.t].hdr["status"] = "failed"
   /\ disk[call.loc][call.t].hdr["error_code"] = "TIMEOUT") => ~call.can

C20_Witness ==
  /\ call.op = "get_file_status"
  /\ disk[call.loc][call.t].kind = "full"
  /\ disk[call.loc][call.t].hdr["status"] = "failed"
  /\ disk[call.loc][call.t].hdr["error_code"] = "TIMEOUT"
  /\ disk[call.loc][call.t].hdr["error"] = ABSENT
  /\ call.can = FALSE

\* the two malformed header blocks: opened with '---' and never closed,
\* closed but not valid YAML
MalformedKinds == {"hdrcut", "badyaml"}

\* C21: read on an existing file fails with a parse error when the header
\* block is malformed (never terminated, or invalid YAML), and only then.
C21_MalformedHeaderReadFails ==
  (call.op = "read" /\ disk[call.loc][call.t].kind # "nofile") =>
     (call.raised = "FrontmatterReadError"
        <=> disk[call.loc][call.t].kind \in MalformedKinds)

\* the calls that read or rewrite the header of the file they are given
HeaderOps ==
  {"read", "write", "write_status", "mark_as_approved", "mark_as_uploaded"}

\* C22: a call that reads or rewrites the header of a file whose header
\* block is malformed ends with an error and leaves every file as it was.
C22_MalformedHeaderUntouched ==
  (/\ call.op \in HeaderOps
   /\ call.before[call.loc][call.t].kind \in MalformedKinds) =>
     (call.raised # "" /\ disk = call.before)

C24_ScanMissingRootRaises ==
  /\ dres.root \in {"missing", "file"} =>
       (dres.raised = "DirectoryNotFoundError" /\ dres.total_scanned = 0)
  /\ dres.root = "empty" => (dres.raised = "" /\ dres.total_scanned = 0)

C24_Witness ==
  /\ dres.root = "file"
  /\ dres.raised = "DirectoryNotFoundError"
  /\ dres.total_scanned = 0

\* the files of the tree that cannot be read or parsed
Unparseable(tree) ==
  {t \in Transcripts : tree[t].kind \in {"unreadable", "badyaml"}}

\* C25: discover returns normally over a tree holding files it cannot read
\* or parse: each such file is left out and counted in parsed_failed, every
\* file of the tree is counted in total_scanned, and every other file that
\* is eligible is still admitted.
C25_UnparseableFileSkipped ==
  dres.root = "tree" =>
    LET tree == disk["src"]
    IN /\ dres.raised = ""
       /\ dres.total_scanned = Cardinality({t \in Transcripts :
                                              tree[t].kind # "nofile"})
       /\ Unparseable(tree) \cap admitted = {}
       /\ dres.parsed_failed >= Cardinality(Unparseable(tree))
       /\ dres.ready_to_process = Cardinality(admitted)
       /\ \A t \in Transcripts :
            (/\ tree[t].kind \in {"full", "bodycut"}
             /\ ExtractOk(tree[t].hdr)
             /\ should_process(tree[t].hdr)) => t \in admitted

C25_Witness ==
  /\ dres.root = "tree"
  /\ disk["src"]["t1"].kind = "badyaml"
  /\ admitted = {"t2"}
  /\ dres.total_scanned = 2
  /\ dres.parsed_failed = 1
  /\ dres.ready_to_process = 1

\* the attempts of the _make_request call that were followed by a sleep and
\* another iteration
RetriedAttempts ==
  {i \in 1..Len(req.outs) : i < Len(req.outs) \/ req.result = ""}

\* a response with a 4xx status other than 429
Other4xx(o) ==
  o.kind = "response" /\ 400 <= o.code /\ o.code < 500 /\ o.code # 429

\* C26: _make_request goes on to another request only after a 5xx response,
\* a 429 response or an exception of the request (timeout, connection
\* error); a response with any other 4xx status ends the call with an error
\* at once, with no sleep after it, and when it answers the first request
\* exactly one request was sent.
C26_RetryOnlyTransient ==
  /\ \A i \in RetriedAttempts :
       \/ req.outs[i].kind \in RequestExceptions
       \/ req.outs[i].code = 429
       \/ (500 <= req.outs[i].code /\ req.outs[i].code < 600)
  /\ \A i \in 1..Len(req.outs) :
       Other4xx(req.outs[i]) =>
         /\ i = Len(req.outs)
         /\ req.result \notin {"", "return"}
         /\ Len(req.slept) = i - 1
         /\ req.attempt = i

\* C27: an error _make_request raises for a 4xx response it does not retry
\* (401 and 404 included) has the status code of the response in
\* status_code.
C27_ErrorCarriesStatusCode ==
  (/\ req.result \notin {"", "return"}
   /\ Len(req.outs) > 0
   /\ Other4xx(req.outs[Len(req.outs)])) =>
     req.status_code = req.outs[Len(req.outs)].code

\* the exception classes of uploader.py: APIError and its subclasses
APIErrors ==
  {"APIError", "AuthenticationError", "SourceNotFoundError",
   "NotebookNotFoundError", "RateLimitError"}

\* C28: _make_request sends at most max_attempts requests, sleeps the same
\* constant delay once after each request but the last, and is over after
\* max_attempts requests at the latest, having returned on a 200/201
\* response or raised an APIError or a subclass; with max_attempts = 3 and
\* statuses 503, 503, 200 it has slept twice and returned.
C28_BoundedAttempts ==
  /\ req.attempt <= req.max_attempts
  /\ Len(req.outs) = req.attempt
  /\ Len(req.slept) = IF req.result = "" THEN req.attempt
                      ELSE req.attempt - 1
  /\ \A i \in 1..Len(req.slept) : req.slept[i] = Delay
  /\ (req.max_attempts > 0 /\ req.attempt = req.max_attempts) =>
        req.result # ""
  /\ req.result \in {"", "return"} \cup APIErrors
  /\ req.result = "return" =>
        req.outs[Len(req.outs)] \in {Response(200), Response(201)}
  /\ (/\ req.max_attempts = 3
      /\ req.outs = <<Response(503), Response(503), Response(200)>>) =>
        (req.slept = <<Delay, Delay>> /\ req.result = "return")

C28_Witness ==
  /\ req.max_attempts = 3
  /\ req.outs = <<Response(503), Response(503), Response(200)>>
  /\ req.slept = <<5, 5>>
  /\ req.result = "return"

C30_RateLimitCarriesRetryAfter ==
  (/\ llm.max_retries > 0
   /\ Len(llm.outs) = llm.max_retries
   /\ \A k \in 1..Len(llm.outs) : llm.outs[k] = "quota") =>
     (llm.result = "LLMRateLimitError" /\ llm.retry_after # NoneDelay)

\* the exceptions _call_gemini_with_streaming raises
LLMErrors == {"LLMCallError", "LLMTimeoutError", "LLMRateLimitError"}

\* C31: _call_gemini_with_streaming runs the subprocess at most max_retries
\* times and is over after max_retries runs at the latest, having returned
\* the output of a run that exited with 0 or raised one of LLMCallError,
\* LLMTimeoutError, LLMRateLimitError; a timeout of the last run raises
\* LLMTimeoutError.
C31_BoundedLlmAttempts ==
  /\ llm.attempt <= llm.max_retries
  /\ Len(llm.outs) = llm.attempt
  /\ (llm.max_retries > 0 /\ llm.attempt = llm.max_retries) =>
        llm.result # ""
  /\ llm.result \in {"", "return"} \cup LLMErrors
  /\ llm.result = "return" =>
        (llm.outs[Len(llm.outs)] = "ok" /\ llm.output = Len(llm.outs))
  /\ (/\ llm.max_retries > 0
      /\ llm.attempt = llm.max_retries
      /\ llm.outs[Len(llm.outs)] = "timeout") =>
        llm.result = "LLMTimeoutError"

C31_Witness ==
  /\ llm.max_retries = 3
  /\ llm.outs = <<"timeout", "quota", "timeout">>
  /\ llm.attempt = 3
  /\ llm.result = "LLMTimeoutError"

\* C40: after a timeout of attempt k < max_retries the call sleeps
\* min(initial_retry_delay * 2^(k-1), 60) before attempt k+1.
C40_TimeoutBackoff ==
  \A k \in 1..Len(llm.outs) :
    (llm.outs[k] = "timeout" /\ k < llm.max_retries) =>
      /\ Len(llm.slept) >= k
      /\ llm.slept[k] =
           (IF llm.initial_retry_delay * Pow2(k - 1) > 60 THEN 60
            ELSE llm.initial_retry_delay * Pow2(k - 1))

\* C37: in one _make_request call a response with status 200 or 201 is the
\* last thing the call receives: the call is over with it and no request is
\* sent after it.
C37_NoResendAfterSuccess ==
  \A i \in 1..Len(req.outs) :
    (req.outs[i].kind \in {"response", "undecodable"} /\
     req.outs[i].code \in {200, 201}) =>
       (i = Len(req.outs) /\ req.result # "")

\* C32: when the LLM call for a transcript ends in a terminal failure, the
\* header of that transcript's file is written with status failed.
C32_LlmFailureMarksFailed ==
  [][(pc = "an_llm" /\ pc' = "an_next") =>
       \E loc \in Locs : /\ disk'[loc][cur].kind # "nofile"
                         /\ StatusOf(disk'[loc][cur]) = "failed"]_vars

\* C33: in a batch loop a typed failure of an item does not end the loop:
\* the items after it are attempted, no item is attempted twice, and when no
\* other exception is raised the loop returns after every item was
\* attempted once.
C33_BatchContinuesAfterFailure ==
  /\ batch.i <= batch.total
  /\ Len(batch.outs) = batch.i
  /\ \A k \in 1..Len(batch.outs) :
       (batch.outs[k] = "typed" /\ k < batch.total) =>
         (batch.result = "" \/ batch.i > k)
  /\ batch.result = "return" => batch.i = batch.total
  /\ (batch.result # "" /\ \A k \in 1..Len(batch.outs) :
                             batch.outs[k] # "other") =>
       (batch.result = "return" /\ batch.i = batch.total)

C33_Witness ==
  /\ batch.loop = "analyze_batch"
  /\ batch.total = 3
  /\ batch.outs = <<"typed", "ok", "typed">>
  /\ batch.result = "return"

\* C34: an exception outside the failure taxonomy raised while an item is
\* processed ends the loop there, and the run that main started ends with a
\* non-zero exit code.
C34_ProgrammingErrorPropagates ==
  \A k \in 1..Len(batch.outs) :
    batch.outs[k] = "other" =>
      /\ k = Len(batch.outs)
      /\ batch.result = "raised"
      /\ batch.loop \in {"analyze_batch", "run_upload"} =>
           batch.exit \notin {NoExit, 0}

\* C35: in analyze_batch and run_upload, between the processing of an item
\* and the processing of the next one there is a sleep, whether the earlier
\* item succeeded or failed.
C35_DelayBetweenCalls ==
  batch.loop \in {"analyze_batch", "run_upload"} =>
    \A j \in 1..Len(batch.events) :
      (batch.events[j] # "sleep" /\ j < Len(batch.events)) =>
         batch.events[j + 1] = "sleep"

\* C36: create_source is called for a file only when the status loaded from
\* its header is approved.
C36_OnlyApprovedUploaded ==
  [][(pc = "up_create" /\ apiCalls' = apiCalls + 1) =>
       loaded = "approved"]_vars

\* C38: when the embed endpoint answers 404, trigger_embedding returns
\* normally (the upload goes on and returns the source id).
C38_Embed404Ignored ==
  (/\ req.endpoint = "/api/embed"
   /\ req.embed # ""
   /\ req.outs[Len(req.outs)] = Response(404)) => req.embed = "return"

\* C39: get_file_status does not return can_process = true for a file
\* whose header block is malformed (never closed, or invalid YAML).
C39_MalformedNeverEligible ==
  (/\ call.op = "get_file_status"
   /\ disk[call.loc][call.t].kind \in MalformedKinds) => ~call.can

====
